---- MODULE Spec2Model ----
(***************************************************************************)
(* Model of the manifest core of the package manager (src/lib/manifest.rs):*)
(* Manifest::parse, Manifest::gen_manifest and Display for Manifest, run   *)
(* against a checkout (working directory, git state, packages tree) and    *)
(* the manifest.lua file at the root of the checkout.                      *)
(***************************************************************************)
EXTENDS Integers, Sequences, FiniteSets, TLC

\* ------------------------------------------------------------------------
\* Bounds
\* ------------------------------------------------------------------------

\* number of gen_manifest invocations in one behaviour
MaxRuns == 2

\* ------------------------------------------------------------------------
\* Generic helpers
\* ------------------------------------------------------------------------

EmptyMap == << >>

RECURSIVE ConcatAll(_)
ConcatAll(ss) == IF Len(ss) = 0 THEN << >> ELSE Head(ss) \o ConcatAll(Tail(ss))

\* all orders in which an iterator may yield the elements of a set
Perms(S) == { p \in [1..Cardinality(S) -> S] : \A x \in S : \E i \in DOMAIN p : p[i] = x }

\* ------------------------------------------------------------------------
\* The data model
\* ------------------------------------------------------------------------

\* Manifest::default(): empty strings, 0, empty map
DefaultManifest ==
    [repo |-> "", latest_commit |-> "", last_update |-> 0, packages |-> EmptyMap]

Manifest(repo, latest_commit, last_update, packages) ==
    [repo |-> repo, latest_commit |-> latest_commit,
     last_update |-> last_update, packages |-> packages]

ManifestPackage(commit, path, contents) ==
    [commit |-> commit, path |-> path, contents |-> contents]

ManifestPackageContent(name, path, sha1, url) ==
    [name |-> name, path |-> path, sha1 |-> sha1, url |-> url]

\* ------------------------------------------------------------------------
\* Lua values and the text of a manifest.lua file
\* ------------------------------------------------------------------------
\* A file is a sequence of lines.  A line is a comment, a blank line, the
\* statement `local m = krait.manifest`, or an assignment
\*     m.<k1>["k2"]...["kn"]  =  <rhs>
\* whose left side is the key path `lhs` (with `stray` set when the text has
\* one more "]" than "[" before the "=") and whose right side is a complete
\* expression (string literal, number, table constructor) or a lone "{" or
\* "}" token.

LStr(s) == [t |-> "str", s |-> s]
LNum(n) == [t |-> "num", n |-> n]
\* a table: array part (keys 1..n) and hash part (string keys)
LTbl(arr, map) == [t |-> "tbl", arr |-> arr, map |-> map]
LOpen == [t |-> "open"]
LClose == [t |-> "close"]

CommentLine == [kind |-> "comment"]
BlankLine == [kind |-> "blank"]
LocalM == [kind |-> "local_m"]
Assign(lhs, rhs) == [kind |-> "assign", lhs |-> lhs, stray |-> FALSE, rhs |-> rhs]
AssignStray(lhs, rhs) == [kind |-> "assign", lhs |-> lhs, stray |-> TRUE, rhs |-> rhs]

\* format!("{}", i64)
Digit(d) ==
    CASE d = 0 -> "0" [] d = 1 -> "1" [] d = 2 -> "2" [] d = 3 -> "3" [] d = 4 -> "4"
      [] d = 5 -> "5" [] d = 6 -> "6" [] d = 7 -> "7" [] d = 8 -> "8" [] d = 9 -> "9"

RECURSIVE DecNat(_)
DecNat(n) == IF n < 10 THEN Digit(n) ELSE DecNat(n \div 10) \o Digit(n % 10)

Dec(n) == IF n < 0 THEN "-" \o DecNat(0 - n) ELSE DecNat(n)

\* ------------------------------------------------------------------------
\* impl Display for Manifest
\* ------------------------------------------------------------------------

\* the four lines, then the stray-bracket closing line, of one content file
ContentLines(prefix, content) ==
    LET p == prefix \o <<content.name>> IN
    << Assign(p, LOpen),
       Assign(p \o <<"path">>, LStr(content.path)),
       Assign(p \o <<"sha1">>, LStr(content.sha1)),
       Assign(p \o <<"url">>, LStr(content.url)),
       AssignStray(p, LClose) >>

\* one entry of a version's list
PackageLines(prefix, package) ==
    LET p == prefix \o <<package.path>>
        c == p \o <<"contents">> IN
    << Assign(p, LOpen),
       Assign(p \o <<"commit">>, LStr(package.commit)),
       Assign(c, LOpen) >>
    \o ConcatAll([i \in DOMAIN package.contents |-> ContentLines(c, package.contents[i])])
    \o << AssignStray(c, LClose), AssignStray(p, LClose) >>

VersionLines(package_name, version, packages) ==
    LET p == <<"packages", package_name, version>> IN
    << Assign(p, LOpen) >>
    \o ConcatAll([i \in DOMAIN packages |-> PackageLines(p, packages[i])])

\* pkgOrder and verOrder are the orders in which the two HashMap iterations
\* yield their keys
to_string(manifest, pkgOrder, verOrder) ==
    << CommentLine, CommentLine, BlankLine, LocalM,
       Assign(<<"repo">>, LStr(manifest.repo)),
       Assign(<<"latest_commit">>, LStr(manifest.latest_commit)),
       Assign(<<"last_update">>, LStr(Dec(manifest.last_update))),
       BlankLine >>
    \o ConcatAll([i \in DOMAIN pkgOrder |->
         LET package_name == pkgOrder[i]
             versions == manifest.packages[package_name]
             vo == verOrder[package_name] IN
         << Assign(<<"packages", package_name>>, LOpen) >>
         \o ConcatAll([j \in DOMAIN vo |->
                VersionLines(package_name, vo[j], versions[vo[j]])])])

\* the iteration orders a HashMap of this shape can have
PkgOrders(manifest) == Perms(DOMAIN manifest.packages)
VerOrders(manifest) ==
    { f \in [DOMAIN manifest.packages -> UNION { Perms(DOMAIN manifest.packages[n]) : n \in DOMAIN manifest.packages }] :
        \A n \in DOMAIN manifest.packages : f[n] \in Perms(DOMAIN manifest.packages[n]) }

\* ------------------------------------------------------------------------
\* String literals
\* ------------------------------------------------------------------------
\* The characters of a string that matter to a Lua string literal: a string
\* is cut into the double quote or backslash it holds and the plain text
\* before and after it.  The strings of this model hold at most one such
\* character, in a file name, and so in the paths and urls made from it.
\* (Sha1Hex values stand for hex digits and are plain.)

Specials == {"\"", "\\"}

PlainBefore ==
    LET dirs == {"", "packages/foo/"}
               \cup { "https://raw.githubusercontent.com/" \o r \o "/" \o b \o "/packages/foo/" :
                        r \in {"github", "github-mirror", "m1ten/pkgs"}, b \in {"main", "dev"} }
    IN { d \o x : d \in dirs, x \in {"a", "c"} }

PlainAfter == {"b.txt", "n.txt"}

chars(s) ==
    IF \E p \in PlainBefore : \E c \in Specials : \E r \in PlainAfter : s = p \o c \o r
    THEN CHOOSE t \in PlainBefore \X Specials \X PlainAfter : s = t[1] \o t[2] \o t[3]
    ELSE << s >>

\* format!("\"{}\"", s): the string between two quotes, as it is
Literal(s) == << "\"" >> \o chars(s) \o << "\"" >>

\* what a backslash makes of the text after it: \n is a newline, \b a
\* backspace that these strings do not need
Unescape(r) ==
    IF r = "n.txt" THEN [ok |-> TRUE, s |-> "\n.txt"] ELSE [ok |-> FALSE, s |-> ""]

\* the Lua lexer inside a string literal: up to the first unescaped quote
RECURSIVE LexBody(_, _)
LexBody(toks, acc) ==
    IF Len(toks) = 0 THEN [ok |-> FALSE, value |-> acc, rest |-> << >>]
    ELSE IF Head(toks) = "\"" THEN [ok |-> TRUE, value |-> acc, rest |-> Tail(toks)]
    ELSE IF Head(toks) = "\\"
         THEN IF Len(toks) >= 2 /\ Unescape(toks[2]).ok
              THEN LexBody(Tail(Tail(toks)), acc \o Unescape(toks[2]).s)
              ELSE [ok |-> FALSE, value |-> acc, rest |-> << >>]
    ELSE LexBody(Tail(toks), acc \o Head(toks))

LuaLexString(toks) ==
    IF Len(toks) = 0 \/ Head(toks) # "\""
    THEN [ok |-> FALSE, value |-> "", rest |-> << >>]
    ELSE LexBody(Tail(toks), "")

\* the literal of s is one whole string token; text left after its closing
\* quote is an unexpected symbol in these files
LiteralOk(s) == LET r == LuaLexString(Literal(s)) IN r.ok /\ Len(r.rest) = 0

\* the string that token denotes
Denotes(s) == LuaLexString(Literal(s)).value


\* ------------------------------------------------------------------------
\* Manifest::parse
\* ------------------------------------------------------------------------

\* lua.load(&s): the chunk compiles.  A lone "{" starts a table constructor,
\* and what follows it in these files (another `m.packages[...] =` line, or
\* the end of the file) is not a field list; a lone "}" and a stray "]" are
\* unexpected symbols.
CompleteExp(rhs) == rhs.t \in {"str", "num", "tbl"}

SyntaxOk(s) ==
    \A i \in DOMAIN s :
        s[i].kind = "assign" =>
            /\ ~s[i].stray /\ CompleteExp(s[i].rhs)
            /\ s[i].rhs.t = "str" => LiteralOk(s[i].rhs.s)
            /\ \A k \in 2..Len(s[i].lhs) : LiteralOk(s[i].lhs[k])

\* the key path and the value an assignment line denotes
LineKeys(lhs) == [k \in DOMAIN lhs |-> IF k = 1 THEN lhs[k] ELSE Denotes(lhs[k])]
LineValue(rhs) == IF rhs.t = "str" THEN LStr(Denotes(rhs.s)) ELSE rhs

\* assignment to t.k1.k2...kn : every table on the way must exist
RECURSIVE SetPath(_, _, _)
SetPath(map, path, val) ==
    IF Len(path) = 1
    THEN [ok |-> TRUE, map |-> (path[1] :> val) @@ map]
    ELSE IF path[1] \in DOMAIN map /\ map[path[1]].t = "tbl"
         THEN LET r == SetPath(map[path[1]].map, Tail(path), val) IN
              IF r.ok
              THEN [ok |-> TRUE,
                    map |-> (path[1] :> LTbl(map[path[1]].arr, r.map)) @@ map]
              ELSE [ok |-> FALSE, map |-> map]
         ELSE [ok |-> FALSE, map |-> map]

\* .exec(): run the statements in order against the empty krait.manifest
\* table; `bound` is whether the local `m` has been declared
RECURSIVE Exec(_, _, _)
Exec(s, bound, map) ==
    IF Len(s) = 0 THEN [ok |-> TRUE, map |-> map]
    ELSE LET l == Head(s) IN
         IF l.kind = "local_m" THEN Exec(Tail(s), TRUE, map)
         ELSE IF l.kind = "assign"
              THEN IF ~bound THEN [ok |-> FALSE, map |-> map]
                   ELSE LET r == SetPath(map, LineKeys(l.lhs), LineValue(l.rhs)) IN
                        IF r.ok THEN Exec(Tail(s), bound, r.map)
                        ELSE [ok |-> FALSE, map |-> map]
              ELSE Exec(Tail(s), bound, map)

IsStr(v) == v.t = "str"
IsNum(v) == v.t = "num"
IsTbl(v) == v.t = "tbl"

\* a struct is read from the hash part of a table: every field present and
\* of its type, other keys ignored
ContentOk(v) ==
    /\ IsTbl(v)
    /\ {"name", "path", "sha1", "url"} \subseteq DOMAIN v.map
    /\ \A k \in {"name", "path", "sha1", "url"} : IsStr(v.map[k])

\* Vec<T> is read from the array part of a table
ContentsOk(v) == IsTbl(v) /\ \A i \in DOMAIN v.arr : ContentOk(v.arr[i])

PackageOk(v) ==
    /\ IsTbl(v)
    /\ {"commit", "path", "contents"} \subseteq DOMAIN v.map
    /\ IsStr(v.map.commit) /\ IsStr(v.map.path)
    /\ ContentsOk(v.map.contents)

\* HashMap<String, V> is read from all pairs of a table: an array part gives
\* integer keys, which are not Strings
VersionsOk(v) ==
    /\ IsTbl(v) /\ Len(v.arr) = 0
    /\ \A ver \in DOMAIN v.map :
          /\ IsTbl(v.map[ver])
          /\ \A i \in DOMAIN v.map[ver].arr : PackageOk(v.map[ver].arr[i])

PackagesOk(v) ==
    /\ IsTbl(v) /\ Len(v.arr) = 0
    /\ \A n \in DOMAIN v.map : VersionsOk(v.map[n])

CoerceOk(map) ==
    /\ {"repo", "latest_commit", "last_update", "packages"} \subseteq DOMAIN map
    /\ IsStr(map.repo) /\ IsStr(map.latest_commit)
    /\ IsNum(map.last_update)
    /\ PackagesOk(map.packages)

ToContent(v) ==
    ManifestPackageContent(v.map.name.s, v.map.path.s, v.map.sha1.s, v.map.url.s)

ToPackage(v) ==
    ManifestPackage(v.map.commit.s, v.map.path.s,
        [i \in DOMAIN v.map.contents.arr |-> ToContent(v.map.contents.arr[i])])

\* lua.from_value_with(manifest_table, options)
from_value(map) ==
    Manifest(map.repo.s, map.latest_commit.s, map.last_update.n,
        [n \in DOMAIN map.packages.map |->
            [ver \in DOMAIN map.packages.map[n].map |->
                [i \in DOMAIN map.packages.map[n].map[ver].arr |->
                    ToPackage(map.packages.map[n].map[ver].arr[i])]]])

\* Manifest::parse(s): ok with the manifest, or the process exits
parse(s) ==
    IF ~SyntaxOk(s) THEN [ok |-> FALSE, manifest |-> DefaultManifest]
    ELSE LET r == Exec(s, FALSE, EmptyMap) IN
         IF ~r.ok \/ ~CoerceOk(r.map) THEN [ok |-> FALSE, manifest |-> DefaultManifest]
         ELSE [ok |-> TRUE, manifest |-> from_value(r.map)]


\* ------------------------------------------------------------------------
\* The checkout gen_manifest runs in
\* ------------------------------------------------------------------------

\* what std::env::current_dir, Repository::discover, repo.head(),
\* shorthand() and peel_to_commit() give in the working directory
GitStates ==
    { [state |-> st, branch |-> b, id |-> "c0ffee", time |-> 1650000000] :
        st \in {"ok"}, b \in {"main", "dev"} }
    \cup
    { [state |-> st, branch |-> "main", id |-> "c0ffee", time |-> 1650000000] :
        st \in {"no_cwd", "not_a_repo", "no_head", "no_shorthand", "no_commit"} }

\* the configured remotes, in the order repo.remotes() lists their names
RemoteLists ==
    { << >>,
      << [name |-> "origin", url |-> "https://github.com/m1ten/pkgs"] >>,
      << [name |-> "github", url |-> "https://gitlab.com/m1ten/pkgs"] >>,
      << [name |-> "github", url |-> "https://github.com/m1ten/pkgs"],
         [name |-> "github-mirror", url |-> "https://github.com/m1ten/mirror"] >> }

\* str::contains("github") on the strings above
ContainsGithub(s) ==
    s \in {"github", "github-mirror",
           "https://github.com/m1ten/pkgs", "https://github.com/m1ten/mirror"}

\* the text of a package descriptor declaring a version
Descriptor(ver) == "version = \"" \o ver \o "\""

\* krait::pkg::PkgInfo::parse: the descriptor's declared version
PkgInfo_parse(text) ==
    [ver |-> CHOOSE v \in {"1.0.0", "2.0.0"} : Descriptor(v) = text]

\* an entry of the packages directory: a plain file, or a package directory
\* with its files (name -> bytes), its subdirectories, and whether
\* HEAD:packages/<name> resolves to a commit
PlainFile == [is_dir |-> FALSE, files |-> EmptyMap, subdirs |-> {}, tracked |-> TRUE]
PackageDir(files, subdirs, tracked) ==
    [is_dir |-> TRUE, files |-> files, subdirs |-> subdirs, tracked |-> tracked]

GoodDir(ver) ==
    PackageDir(("manifest.lua" :> Descriptor(ver)) @@ ("a.txt" :> "hi"), {}, TRUE)

\* the packages directory: absent, or its entries by name
Layouts ==
    { [has_packages |-> FALSE, entries |-> EmptyMap],
      [has_packages |-> TRUE, entries |-> EmptyMap],
      [has_packages |-> TRUE, entries |-> ("foo" :> GoodDir("1.0.0"))],
      [has_packages |-> TRUE,
       entries |-> ("foo" :> GoodDir("1.0.0")) @@ ("bar" :> GoodDir("1.0.0"))
                    @@ ("README" :> PlainFile)],
      [has_packages |-> TRUE,
       entries |-> ("foo" :> PackageDir(("manifest.lua" :> Descriptor("1.0.0")), {"docs"}, TRUE))],
      [has_packages |-> TRUE,
       entries |-> ("foo" :> GoodDir("1.0.0"))
                    @@ ("bar" :> PackageDir(("manifest.lua" :> Descriptor("2.0.0"))
                                              @@ ("a.txt" :> "yo"), {"docs"}, TRUE))],
      [has_packages |-> TRUE,
       entries |-> ("foo" :> GoodDir("1.0.0"))
                    @@ ("bar" :> PackageDir(("a.txt" :> "hi"), {}, TRUE))],
      [has_packages |-> TRUE,
       entries |-> ("foo" :> PackageDir(("manifest.lua" :> Descriptor("1.0.0"))
                                          @@ ("a.txt" :> "hi"), {}, FALSE))],
      \* file names with a double quote and with a backslash
      [has_packages |-> TRUE,
       entries |-> ("foo" :> PackageDir(("manifest.lua" :> Descriptor("1.0.0"))
                                          @@ ("a\"b.txt" :> "hi") @@ ("c\\n.txt" :> "yo"),
                                        {}, TRUE))] }

\* the one I/O operation that fails in this checkout, if any
Faults ==
    {"none", "create", "write", "remotes", "read_dir", "read_descriptor",
     "read_package_dir", "open", "copy"}

\* Sha1 of a file's bytes as lower-case hex: an injective function of the bytes
Sha1Hex(bytes) == "sha1(" \o bytes \o ")"

\* Content, but the digest is taken of the file's path, not of its bytes
Content_hash_path(repo, branch_name, package_path, content_name, bytes) ==
    LET content_path == package_path \o "/" \o content_name IN
    ManifestPackageContent(content_name, content_path, Sha1Hex(content_path),
        "https://raw.githubusercontent.com/" \o repo \o "/" \o branch_name
            \o "/" \o content_path)

\* Content, but the url is built without the branch name
Content_no_branch(repo, branch_name, package_path, content_name, bytes) ==
    LET content_path == package_path \o "/" \o content_name IN
    ManifestPackageContent(content_name, content_path, Sha1Hex(bytes),
        "https://raw.githubusercontent.com/" \o repo \o "/" \o content_path)

\* lines 295-339: the ManifestPackageContent of one file
Content(repo, branch_name, package_path, content_name, bytes) ==
    LET content_path == package_path \o "/" \o content_name IN
    ManifestPackageContent(content_name, content_path, Sha1Hex(bytes),
        "https://raw.githubusercontent.com/" \o repo \o "/" \o branch_name
            \o "/" \o content_path)


\* commit.id().to_string() of the commit HEAD:packages/<name> peels to
PackageCommit(package_name) == "commit(" \o package_name \o ")"

\* ------------------------------------------------------------------------
\* The manifest.lua file found at the root of the checkout
\* ------------------------------------------------------------------------

NoFile == [exists |-> FALSE, readable |-> FALSE, text |-> << >>]
File(text) == [exists |-> TRUE, readable |-> TRUE, text |-> text]
\* a file read_to_string cannot read (not UTF-8)
BinaryFile == [exists |-> TRUE, readable |-> FALSE, text |-> << >>]

LuaOfContent(c) ==
    LTbl(<< >>, [name |-> LStr(c.name), path |-> LStr(c.path),
                 sha1 |-> LStr(c.sha1), url |-> LStr(c.url)])

LuaOfPackage(p) ==
    LTbl(<< >>, [commit |-> LStr(p.commit), path |-> LStr(p.path),
                 contents |-> LTbl([i \in DOMAIN p.contents |-> LuaOfContent(p.contents[i])],
                                   EmptyMap)])

LuaOfPackages(packages) ==
    LTbl(<< >>, [n \in DOMAIN packages |->
        LTbl(<< >>, [v \in DOMAIN packages[n] |->
            LTbl([i \in DOMAIN packages[n][v] |-> LuaOfPackage(packages[n][v][i])],
                 EmptyMap)])])

\* a manifest.lua that sets the four fields with values of their types
WellFormedFile(m) ==
    File(<< LocalM,
            Assign(<<"repo">>, LStr(m.repo)),
            Assign(<<"latest_commit">>, LStr(m.latest_commit)),
            Assign(<<"last_update">>, LNum(m.last_update)),
            Assign(<<"packages">>, LuaOfPackages(m.packages)) >>)

\* the entry a scan of a GoodDir(ver) named package_name produces
GoodEntry(repo, branch_name, package_name, ver) ==
    LET package_path == "packages/" \o package_name IN
    ManifestPackage(PackageCommit(package_name), package_path,
        << Content(repo, branch_name, package_path, "a.txt", "hi"),
           Content(repo, branch_name, package_path, "manifest.lua", Descriptor(ver)) >>)

SeedManifests ==
    { Manifest("m1ten/pkgs", "0ldc0de", 1600000000, EmptyMap),
      Manifest("m1ten/pkgs", "0ldc0de", 1600000000,
          ("foo" :> ("1.0.0" :> << GoodEntry("m1ten/pkgs", "main", "foo", "1.0.0") >>))
          @@ ("bar" :> ("2.0.0" :> << GoodEntry("m1ten/pkgs", "main", "bar", "2.0.0") >>))),
      Manifest("", "0ldc0de", 1600000000,
          ("foo" :> ("2.0.0" :> << GoodEntry("github", "main", "foo", "2.0.0") >>))) }

InitialDisks ==
    { NoFile, BinaryFile,
      \* a script that fails when run: `m` is never declared
      File(<< Assign(<<"repo">>, LStr("m1ten/pkgs")) >>),
      \* a script that runs but leaves last_update a string
      File(<< LocalM, Assign(<<"repo">>, LStr("m1ten/pkgs")),
              Assign(<<"latest_commit">>, LStr("0ldc0de")),
              Assign(<<"last_update">>, LStr("1600000000")),
              Assign(<<"packages">>, LTbl(<< >>, EmptyMap)) >>) }
    \cup { WellFormedFile(m) : m \in SeedManifests }


\* ------------------------------------------------------------------------
\* State
\* ------------------------------------------------------------------------

VARIABLES
    checkout,       \* the working directory: git state, remotes, packages tree, I/O fault
    disk,           \* the manifest.lua file at the root of the checkout
    pc,             \* where gen_manifest is: idle, its steps, done, or exited
    err,            \* the failure the process exited on, "" if none
    manifest,       \* the local `manifest` of gen_manifest
    branch_name,    \* the local `branch_name`
    package_dirs,   \* the package directories still to be processed
    package_name,   \* the locals of the loop body, set by the scan of a
    version,        \*   package directory and used by the merge
    package,
    runs,           \* number of gen_manifest invocations so far
    disk0,          \* the manifest.lua file when the current invocation began
    results         \* how each finished invocation ended: its manifest, the
                    \*   checkout it ran in and the manifest.lua it began with

vars == << checkout, disk, pc, err, manifest, branch_name, package_dirs,
           package_name, version, package, runs, disk0, results >>

locals == << branch_name, package_dirs, package_name, version, package >>

Init ==
    /\ checkout \in [git : GitStates, remotes : RemoteLists, layout : Layouts,
                     fault : Faults]
    /\ checkout.fault # "none" =>
          (checkout.git.state = "ok" /\ checkout.git.branch = "main"
           /\ Len(checkout.remotes) = 2)
    /\ disk \in InitialDisks
    /\ pc = "idle"
    /\ err = ""
    /\ manifest = DefaultManifest
    /\ branch_name = ""
    /\ package_dirs = << >>
    /\ package_name = ""
    /\ version = ""
    /\ package = ManifestPackage("", "", << >>)
    /\ runs = 0
    /\ disk0 = disk
    /\ results = << >>

\* krait::exit!(1) after the message for `kind`: the process ends here
exit(kind) ==
    /\ pc' = "exited"
    /\ err' = kind
    /\ results' = Append(results, [outcome |-> "exit", err |-> kind, manifest |-> manifest,
                                   checkout |-> checkout, disk0 |-> disk0])

\* gen_manifest returns
return ==
    /\ pc' = "done"
    /\ err' = ""
    /\ results' = Append(results, [outcome |-> "ok", err |-> "", manifest |-> manifest,
                                   checkout |-> checkout, disk0 |-> disk0])

\* ------------------------------------------------------------------------
\* Manifest::gen_manifest
\* ------------------------------------------------------------------------

\* a new process calls gen_manifest: current directory and repository
Discover ==
    /\ pc \in {"idle", "done", "exited"}
    /\ runs < MaxRuns
    /\ runs' = runs + 1
    /\ disk0' = disk
    /\ manifest' = DefaultManifest
    /\ branch_name' = ""
    /\ package_dirs' = << >>
    /\ package_name' = ""
    /\ version' = ""
    /\ package' = ManifestPackage("", "", << >>)
    /\ IF checkout.git.state = "no_cwd"
       THEN /\ pc' = "exited" /\ err' = "IOError"
            /\ results' = Append(results, [outcome |-> "exit", err |-> "IOError",
                                           manifest |-> DefaultManifest,
                                           checkout |-> checkout, disk0 |-> disk])
       ELSE IF checkout.git.state = "not_a_repo"
       THEN /\ pc' = "exited" /\ err' = "NotARepository"
            /\ results' = Append(results, [outcome |-> "exit", err |-> "NotARepository",
                                           manifest |-> DefaultManifest,
                                           checkout |-> checkout, disk0 |-> disk])
       ELSE /\ pc' = "load" /\ err' = "" /\ UNCHANGED results
    /\ UNCHANGED << checkout, disk >>

\* read manifest.lua and parse it, or create it empty and start from the default
LoadManifest ==
    /\ pc = "load"
    /\ IF disk.exists /\ disk.readable
       THEN LET r == parse(disk.text) IN
            IF r.ok
            THEN /\ manifest' = r.manifest
                 /\ pc' = "head"
                 /\ UNCHANGED << disk, err, results >>
            ELSE /\ exit("ManifestParseError")
                 /\ UNCHANGED << disk, manifest >>
       ELSE IF checkout.fault = "create"
            THEN /\ exit("IOError")
                 /\ UNCHANGED << disk, manifest >>
            ELSE /\ disk' = File(<< >>)
                 /\ manifest' = DefaultManifest
                 /\ pc' = "head"
                 /\ UNCHANGED << err, results >>
    /\ UNCHANGED << checkout, locals, runs, disk0 >>

\* current branch, latest commit and its time
ResolveHead ==
    /\ pc = "head"
    /\ IF checkout.git.state = "ok"
       THEN /\ branch_name' = checkout.git.branch
            /\ manifest' = [manifest EXCEPT !.latest_commit = checkout.git.id,
                                            !.last_update = checkout.git.time]
            /\ pc' = "remote"
            /\ UNCHANGED << err, results >>
       ELSE /\ exit(IF checkout.git.state = "no_commit" THEN "NoCommit" ELSE "NoBranch")
            /\ UNCHANGED << branch_name, manifest >>
    /\ UNCHANGED << checkout, disk, package_dirs, package_name, version, package,
                    runs, disk0 >>

\* the for_each over repo.remotes(): the last listed remote that contains
\* "github" wins
RECURSIVE last_github(_, _)
last_github(remotes, acc) ==
    IF Len(remotes) = 0 THEN acc
    ELSE last_github(Tail(remotes),
                     IF ContainsGithub(Head(remotes).name)
                     THEN [valid |-> TRUE, repo_url |-> Head(remotes).name]
                     ELSE acc)

ResolveRepo ==
    /\ pc = "remote"
    /\ IF manifest.repo = ""
       THEN IF checkout.fault = "remotes"
            THEN /\ exit("IOError")
                 /\ UNCHANGED manifest
            ELSE LET r == last_github(checkout.remotes, [valid |-> FALSE, repo_url |-> ""]) IN
                 IF ~r.valid
                 THEN /\ exit("NoValidRemote")
                      /\ UNCHANGED manifest
                 ELSE /\ manifest' = [manifest EXCEPT !.repo = r.repo_url]
                      /\ pc' = "list"
                      /\ UNCHANGED << err, results >>
       ELSE /\ pc' = "list"
            /\ UNCHANGED << manifest, err, results >>
    /\ UNCHANGED << checkout, disk, locals, runs, disk0 >>

\* the packages directory and its subdirectories, in the order read_dir
\* yields them
ListPackages ==
    /\ pc = "list"
    /\ IF ~checkout.layout.has_packages
       THEN /\ exit("NoPackagesDirectory")
            /\ UNCHANGED package_dirs
       ELSE IF checkout.fault = "read_dir"
       THEN /\ exit("IOError")
            /\ UNCHANGED package_dirs
       ELSE /\ package_dirs' \in Perms({ n \in DOMAIN checkout.layout.entries :
                                           checkout.layout.entries[n].is_dir })
            /\ pc' = IF package_dirs' = << >> THEN "write" ELSE "scan"
            /\ UNCHANGED << err, results >>
    /\ UNCHANGED << checkout, disk, manifest, branch_name, package_name, version,
                    package, runs, disk0 >>


\* the loop over the entries of a package directory (lines 285-341), in the
\* order `order` read_dir yields them: the first subdirectory or failing
\* file ends the process
RECURSIVE read_contents(_, _, _, _, _, _)
read_contents(order, dir, repo, branch, package_path, fault) ==
    IF Len(order) = 0 THEN [err |-> "", contents |-> << >>]
    ELSE LET content_name == Head(order) IN
         IF content_name \in dir.subdirs
         THEN [err |-> "UnsupportedNestedContent", contents |-> << >>]
         ELSE IF fault \in {"open", "copy"}
         THEN [err |-> "IOError", contents |-> << >>]
         ELSE LET r == read_contents(Tail(order), dir, repo, branch, package_path, fault) IN
              IF r.err # "" THEN r
              ELSE [err |-> "",
                    contents |-> << Content(repo, branch, package_path, content_name,
                                            dir.files[content_name]) >> \o r.contents]

\* the body of the loop over package_dirs up to the built ManifestPackage
\* (lines 218-350)
ScanPackage ==
    /\ pc = "scan"
    /\ LET name == Head(package_dirs)
           dir == checkout.layout.entries[name]
           package_path == "packages/" \o name
       IN
       IF "manifest.lua" \notin DOMAIN dir.files
       THEN /\ exit("MissingPackageDescriptor")
            /\ UNCHANGED << package_name, version, package >>
       ELSE IF checkout.fault = "read_descriptor"
       THEN /\ exit("IOError")
            /\ UNCHANGED << package_name, version, package >>
       ELSE IF ~dir.tracked
       THEN /\ exit("NoSuchRevision")
            /\ UNCHANGED << package_name, version, package >>
       ELSE IF checkout.fault = "read_package_dir"
       THEN /\ exit("IOError")
            /\ UNCHANGED << package_name, version, package >>
       ELSE \E order \in Perms(DOMAIN dir.files \cup dir.subdirs) :
              LET r == read_contents(order, dir, manifest.repo, branch_name,
                                     package_path, checkout.fault) IN
              IF r.err # ""
              THEN /\ exit(r.err)
                   /\ UNCHANGED << package_name, version, package >>
              ELSE /\ package_name' = name
                   /\ version' = PkgInfo_parse(dir.files["manifest.lua"]).ver
                   /\ package' = ManifestPackage(PackageCommit(name), package_path,
                                                 r.contents)
                   /\ pc' = "merge"
                   /\ UNCHANGED << err, results >>
    /\ UNCHANGED << checkout, disk, manifest, branch_name, package_dirs, runs, disk0 >>

\* merge, but a present version's list is replaced by the new entry
merge_replace(packages, name, ver, entry) ==
    IF name \in DOMAIN packages
    THEN IF ver \in DOMAIN packages[name]
         THEN [packages EXCEPT ![name][ver] = << entry >>]
         ELSE [packages EXCEPT ![name] = (ver :> << entry >>) @@ @]
    ELSE (name :> (ver :> << entry >>)) @@ packages

\* merge, but a new version of a present package gets a fresh versions map
merge_fresh_versions(packages, name, ver, entry) ==
    IF name \in DOMAIN packages /\ ver \in DOMAIN packages[name]
    THEN [packages EXCEPT ![name][ver] = Append(@, entry)]
    ELSE (name :> (ver :> << entry >>)) @@ packages

\* merge, but an entry whose path is already listed is not appended
merge_dedup(packages, name, ver, entry) ==
    IF name \in DOMAIN packages
    THEN IF ver \in DOMAIN packages[name]
         THEN IF \E i \in DOMAIN packages[name][ver] : packages[name][ver][i].path = entry.path
              THEN packages
              ELSE [packages EXCEPT ![name][ver] = Append(@, entry)]
         ELSE [packages EXCEPT ![name] = (ver :> << entry >>) @@ @]
    ELSE (name :> (ver :> << entry >>)) @@ packages

\* lines 352-379: the packages map with `package` merged in
merge(packages, name, ver, entry) ==
    IF name \in DOMAIN packages
    THEN IF ver \in DOMAIN packages[name]
         THEN [packages EXCEPT ![name][ver] = Append(@, entry)]
         ELSE [packages EXCEPT ![name] = (ver :> << entry >>) @@ @]
    ELSE (name :> (ver :> << entry >>)) @@ packages

\* the end of the loop body: merge, then on to the next package directory
Merge ==
    /\ pc = "merge"
    /\ manifest' = [manifest EXCEPT !.packages = merge(@, package_name, version, package)]
    /\ package_dirs' = Tail(package_dirs)
    /\ pc' = IF Len(package_dirs) = 1 THEN "write" ELSE "scan"
    /\ UNCHANGED << checkout, disk, err, branch_name, package_name, version, package,
                    runs, disk0, results >>

\* manifest.to_string() written over manifest.lua
WriteManifest ==
    /\ pc = "write"
    /\ IF checkout.fault = "write"
       THEN /\ exit("IOError")
            /\ UNCHANGED disk
       ELSE /\ \E pkgOrder \in PkgOrders(manifest) : \E verOrder \in VerOrders(manifest) :
                 disk' = File(to_string(manifest, pkgOrder, verOrder))
            /\ return
    /\ UNCHANGED << checkout, manifest, locals, runs, disk0 >>

\* ------------------------------------------------------------------------
\* Changes to the checkout between two invocations
\* ------------------------------------------------------------------------

\* the other branch is checked out
SwitchBranch ==
    /\ pc \in {"done", "exited"}
    /\ checkout.git.state = "ok"
    /\ checkout' = [checkout EXCEPT !.git.branch = IF @ = "main" THEN "dev" ELSE "main"]
    /\ UNCHANGED << disk, pc, err, manifest, locals, runs, disk0, results >>

\* the packages tree with what lines 195, 227 and 289 reject put right: the
\* packages directory exists, every package directory has a descriptor and
\* no package directory has a subdirectory
Repaired(layout) ==
    [has_packages |-> TRUE,
     entries |-> [n \in DOMAIN layout.entries |->
        LET d == layout.entries[n] IN
        IF ~d.is_dir THEN d
        ELSE [d EXCEPT !.subdirs = {},
                       !.files = IF "manifest.lua" \in DOMAIN d.files THEN d.files
                                 ELSE ("manifest.lua" :> Descriptor("1.0.0")) @@ d.files]]]

\* after a run failed on the packages tree, the tree is put right
Repair ==
    /\ pc = "exited"
    /\ err \in {"NoPackagesDirectory", "MissingPackageDescriptor", "UnsupportedNestedContent"}
    /\ checkout.layout # Repaired(checkout.layout)
    /\ checkout' = [checkout EXCEPT !.layout = Repaired(@)]
    /\ UNCHANGED << disk, pc, err, manifest, locals, runs, disk0, results >>

Next ==
    \/ Discover
    \/ LoadManifest
    \/ ResolveHead
    \/ ResolveRepo
    \/ ListPackages
    \/ ScanPackage
    \/ Merge
    \/ WriteManifest
    \/ SwitchBranch
    \/ Repair

Spec == Init /\ [][Next]_vars


\* ------------------------------------------------------------------------
\* Properties
\* ------------------------------------------------------------------------

InRun == pc \notin {"idle", "done", "exited"}

HasKey(packages, n, v) == n \in DOMAIN packages /\ v \in DOMAIN packages[n]

\* C1: round trip.  When gen_manifest has produced a manifest with at least
\* one package, parsing the text it wrote succeeds and gives back an equal
\* manifest.
C1_RoundTrip ==
    (pc = "done" /\ DOMAIN manifest.packages # {}) =>
        LET r == parse(disk.text) IN r.ok /\ r.manifest = manifest

\* C2: the merge step.  An absent package becomes {version: [entry]}; an
\* absent version of a present package becomes [entry]; a present version's
\* list keeps its elements in place and gets entry as its new last element.
C2_MergeCases ==
    [][ pc = "merge" =>
          LET old == manifest.packages
              new == manifest'.packages
          IN
          /\ package_name \in DOMAIN new
          /\ version \in DOMAIN new[package_name]
          /\ package_name \notin DOMAIN old =>
                /\ DOMAIN new[package_name] = {version}
                /\ new[package_name][version] = << package >>
          /\ (package_name \in DOMAIN old /\ version \notin DOMAIN old[package_name]) =>
                new[package_name][version] = << package >>
          /\ HasKey(old, package_name, version) =>
                LET before == old[package_name][version]
                    after == new[package_name][version]
                IN /\ Len(after) = Len(before) + 1
                   /\ \A i \in 1..Len(before) : after[i] = before[i]
                   /\ after[Len(after)] = package
      ]_vars

\* C2 witness: one run has appended to a present version of one package and
\* added a version to another present package
C2_Witness ==
    /\ pc = "write"
    /\ HasKey(manifest.packages, "foo", "1.0.0")
    /\ Len(manifest.packages["foo"]["1.0.0"]) = 2
    /\ "bar" \in DOMAIN manifest.packages
    /\ DOMAIN manifest.packages["bar"] = {"1.0.0", "2.0.0"}
    /\ Len(manifest.packages["bar"]["1.0.0"]) = 1

\* C3: merge isolation.  No step of a run changes the stored list of any
\* (package, version) other than the one being merged, and the merge adds no
\* key but its own.
C3_Isolation ==
    [][ InRun =>
          LET old == manifest.packages
              new == manifest'.packages
          IN
          /\ \A n \in DOMAIN old : \A v \in DOMAIN old[n] :
                (pc = "merge" /\ n = package_name /\ v = version)
                \/ (HasKey(new, n, v) /\ new[n][v] = old[n][v])
          /\ pc = "merge" =>
                /\ DOMAIN new = DOMAIN old \cup {package_name}
                /\ \A n \in DOMAIN new :
                      DOMAIN new[n] = (IF n \in DOMAIN old THEN DOMAIN old[n] ELSE {})
                                      \cup (IF n = package_name THEN {version} ELSE {})
      ]_vars

\* C3 witness: after every package directory is merged, the manifest still
\* holds a package, and another version of a merged package, that no
\* directory of the checkout declares
C3_Witness ==
    /\ pc = "write"
    /\ package_name # ""
    /\ \/ \E n \in DOMAIN manifest.packages : n \notin DOMAIN checkout.layout.entries
       \/ /\ HasKey(manifest.packages, package_name, "2.0.0")
          /\ HasKey(manifest.packages, package_name, "1.0.0")
          /\ version = "1.0.0"

\* C4: idempotent generation.  A run that follows a successful run on the
\* unchanged checkout succeeds with the same manifest.
C4_Idempotent ==
    \A i \in 1..(Len(results) - 1) :
        (results[i].outcome = "ok" /\ results[i + 1].checkout = results[i].checkout) =>
            /\ results[i + 1].outcome = "ok"
            /\ results[i + 1].manifest = results[i].manifest

\* C5: duplicates are kept.  Within a run no list ever gets shorter, each
\* merge makes the list of its key longer by exactly one, and merging an
\* entry into a list that holds just that entry gives the entry twice.
C5_GrowsByOne ==
    [][ InRun =>
          LET old == manifest.packages
              new == manifest'.packages
          IN
          /\ \A n \in DOMAIN old : \A v \in DOMAIN old[n] :
                HasKey(new, n, v) /\ Len(new[n][v]) >= Len(old[n][v])
          /\ pc = "merge" =>
                /\ HasKey(new, package_name, version)
                /\ Len(new[package_name][version]) =
                      (IF HasKey(old, package_name, version)
                       THEN Len(old[package_name][version]) ELSE 0) + 1
                /\ (HasKey(old, package_name, version)
                    /\ old[package_name][version] = << package >>) =>
                      new[package_name][version] = << package, package >>
      ]_vars

\* C5 witness: the list of the merged key holds the merged entry twice
C5_Witness ==
    /\ pc \in {"scan", "write"}
    /\ HasKey(manifest.packages, package_name, version)
    /\ manifest.packages[package_name][version] = << package, package >>


\* C6: nested content rejection.  A run over a checkout in which a package
\* directory holds a subdirectory does not succeed, and a run that fails on
\* nested content leaves manifest.lua as it was when the run began (absent
\* if it was absent).
C6_NestedLeavesFile ==
    /\ pc = "done" =>
          \A n \in DOMAIN checkout.layout.entries :
              checkout.layout.entries[n].subdirs = {}
    /\ (pc = "exited" /\ err = "UnsupportedNestedContent") => disk = disk0

\* C7: missing packages directory.  A run over a checkout without a packages
\* directory does not succeed, and a run that fails for that reason has
\* written nothing: manifest.lua is as it was when the run began.
C7_NoPackagesNoWrite ==
    /\ pc = "done" => checkout.layout.has_packages
    /\ (pc = "exited" /\ err = "NoPackagesDirectory") => disk = disk0

\* C8: the core never terminates the process: no failure of parse or of
\* gen_manifest ends the process; each is handed back to the caller.
C8_NeverExits == pc # "exited"

\* the repo field of the manifest the run was seeded with
seed_repo ==
    IF disk0.exists /\ disk0.readable /\ parse(disk0.text).ok
    THEN parse(disk0.text).manifest.repo
    ELSE ""

\* C9: repository URL resolution.  Once the run is past the resolution, a
\* non-empty seed repo is unchanged and an empty one has become the URL of a
\* configured remote whose URL names the hosting provider; the run fails for
\* want of a valid remote only when no configured remote has such a URL.
C9_RepoIsRemoteUrl ==
    /\ pc \in {"list", "scan", "merge", "write", "done"} =>
          IF seed_repo # ""
          THEN manifest.repo = seed_repo
          ELSE \E i \in DOMAIN checkout.remotes :
                  /\ ContainsGithub(checkout.remotes[i].url)
                  /\ manifest.repo = checkout.remotes[i].url
    /\ (pc = "exited" /\ err = "NoValidRemote") =>
          \A i \in DOMAIN checkout.remotes : ~ContainsGithub(checkout.remotes[i].url)

\* the package directories that hold the descriptor and exactly one other file
OneFileDirs ==
    { n \in DOMAIN checkout.layout.entries :
        LET d == checkout.layout.entries[n] IN
        /\ d.is_dir /\ d.subdirs = {}
        /\ "manifest.lua" \in DOMAIN d.files
        /\ Cardinality(DOMAIN d.files) = 2 }

TheFile(n) ==
    CHOOSE f \in DOMAIN checkout.layout.entries[n].files : f # "manifest.lua"

\* the strings a download url can start with, up to the path of the file
UrlBases ==
    { "https://raw.githubusercontent.com/" \o r \o "/" \o b \o "/" :
        r \in {"github", "github-mirror", "m1ten/pkgs"}, b \in {"main", "dev"} }

EndsWith(url, suffix) == \E base \in UrlBases : url = base \o suffix

\* the entry of a OneFileDirs package describes its file F
DescribesFile(c, n) ==
    /\ c.name = TheFile(n)
    /\ c.sha1 = Sha1Hex(checkout.layout.entries[n].files[TheFile(n)])
    /\ EndsWith(c.url, "packages/" \o n \o "/" \o TheFile(n))

\* C10 as stated: after a run with no prior manifest.lua, a package with the
\* descriptor and one other file F has one entry under its declared version,
\* and that entry's contents are exactly one ContentFile, describing F.
C10_OneContentFile ==
    (pc = "done" /\ ~disk0.exists) =>
        \A n \in OneFileDirs :
            LET V == PkgInfo_parse(checkout.layout.entries[n].files["manifest.lua"]).ver IN
            /\ HasKey(manifest.packages, n, V)
            /\ Len(manifest.packages[n][V]) = 1
            /\ Len(manifest.packages[n][V][1].contents) = 1
            /\ DescribesFile(manifest.packages[n][V][1].contents[1], n)

\* C10 amended: ... and that entry's contents are exactly two ContentFiles,
\* one for the descriptor manifest.lua and one describing F, in either order.
C10_DescriptorAndFile ==
    (pc = "done" /\ ~disk0.exists) =>
        \A n \in OneFileDirs :
            LET V == PkgInfo_parse(checkout.layout.entries[n].files["manifest.lua"]).ver IN
            /\ HasKey(manifest.packages, n, V)
            /\ Len(manifest.packages[n][V]) = 1
            /\ LET contents == manifest.packages[n][V][1].contents IN
               /\ Len(contents) = 2
               /\ \E i \in 1..2 : \E j \in 1..2 :
                     /\ i # j
                     /\ contents[i].name = "manifest.lua"
                     /\ DescribesFile(contents[j], n)

\* C10 witness: such a run has finished
C10_Witness ==
    /\ pc = "done" /\ ~disk0.exists
    /\ OneFileDirs # {}
    /\ \A n \in OneFileDirs : n \in DOMAIN manifest.packages


\* C11: deterministic serialization.  The text to_string gives for the
\* manifest about to be written is the same whatever order the packages map
\* and the versions maps are iterated in.
C11_OneText ==
    pc = "write" =>
        \A o1 \in PkgOrders(manifest) : \A o2 \in PkgOrders(manifest) :
        \A v1 \in VerOrders(manifest) : \A v2 \in VerOrders(manifest) :
            to_string(manifest, o1, v1) = to_string(manifest, o2, v2)


\* the strings Display puts between quotes on a line: the keys after the
\* first of the left side, and a string right side
QuotedOn(line) ==
    IF line.kind # "assign" THEN {}
    ELSE { line.lhs[k] : k \in 2..Len(line.lhs) }
         \cup (IF line.rhs.t = "str" THEN {line.rhs.s} ELSE {})

\* C12: escaping.  Every string field written into manifest.lua is written
\* as a literal that is one whole string token denoting exactly that string.
C12_LiteralsDenote ==
    pc = "done" =>
        \A i \in DOMAIN disk.text : \A f \in QuotedOn(disk.text[i]) :
            LiteralOk(f) /\ Denotes(f) = f


\* <fetch_base>/<repository_url>/<branch>/<path>
Url(repo, branch, path) ==
    "https://raw.githubusercontent.com/" \o repo \o "/" \o branch \o "/" \o path

\* every ContentFile of an entry has the url of the manifest's repo, the
\* branch of the run and its own path
UrlsCurrent(entry) ==
    \A j \in DOMAIN entry.contents :
        entry.contents[j].url = Url(manifest.repo, branch_name, entry.contents[j].path)

PackageDirs(layout) == { n \in DOMAIN layout.entries : layout.entries[n].is_dir }

DeclaredVersion(layout, n) == PkgInfo_parse(layout.entries[n].files["manifest.lua"]).ver

\* C13 as stated: in the manifest a run ends with, every ContentFile has the
\* url of the manifest's repo, the current branch and its path.
C13_AllUrlsCurrent ==
    pc = "done" =>
        \A n \in DOMAIN manifest.packages : \A v \in DOMAIN manifest.packages[n] :
            \A i \in DOMAIN manifest.packages[n][v] : UrlsCurrent(manifest.packages[n][v][i])

\* C13 amended: in the manifest a run ends with, every ContentFile of the
\* entries that run appended (the last entry under the declared version of
\* each package directory) has the url of the manifest's repo, the current
\* branch and its path.
C13_AddedUrlsCurrent ==
    pc = "done" =>
        \A n \in PackageDirs(checkout.layout) :
            LET v == DeclaredVersion(checkout.layout, n) IN
            /\ HasKey(manifest.packages, n, v)
            /\ Len(manifest.packages[n][v]) >= 1
            /\ UrlsCurrent(manifest.packages[n][v][Len(manifest.packages[n][v])])

\* C13 witness: a run on branch dev has appended an entry next to one that
\* was there before
C13_Witness ==
    /\ pc = "done"
    /\ branch_name = "dev"
    /\ \E n \in PackageDirs(checkout.layout) :
          /\ HasKey(manifest.packages, n, DeclaredVersion(checkout.layout, n))
          /\ Len(manifest.packages[n][DeclaredVersion(checkout.layout, n)]) = 2

\* a checkout on which a run that starts without manifest.lua succeeds
GoodCheckout(c) ==
    /\ c.git.state = "ok"
    /\ c.fault = "none"
    /\ last_github(c.remotes, [valid |-> FALSE, repo_url |-> ""]).valid
    /\ c.layout.has_packages
    /\ \A n \in PackageDirs(c.layout) :
          /\ "manifest.lua" \in DOMAIN c.layout.entries[n].files
          /\ c.layout.entries[n].subdirs = {}
          /\ c.layout.entries[n].tracked

\* m is a manifest that a run starting without manifest.lua gives on c
IsFreshManifest(m, c) ==
    /\ m.repo = last_github(c.remotes, [valid |-> FALSE, repo_url |-> ""]).repo_url
    /\ m.latest_commit = c.git.id
    /\ m.last_update = c.git.time
    /\ DOMAIN m.packages = PackageDirs(c.layout)
    /\ \A n \in PackageDirs(c.layout) :
          LET v == DeclaredVersion(c.layout, n)
              files == c.layout.entries[n].files
              path == "packages/" \o n
          IN
          /\ DOMAIN m.packages[n] = {v}
          /\ Len(m.packages[n][v]) = 1
          /\ m.packages[n][v][1].commit = PackageCommit(n)
          /\ m.packages[n][v][1].path = path
          /\ \E order \in Perms(DOMAIN files) :
                m.packages[n][v][1].contents =
                    [j \in DOMAIN order |->
                        Content(m.repo, c.git.branch, path, order[j], files[order[j]])]

RecoverableErrors ==
    {"NoPackagesDirectory", "MissingPackageDescriptor", "UnsupportedNestedContent"}

\* C14: recovery.  When a run that began without manifest.lua failed on the
\* packages tree, and the next run is on that checkout with the tree put
\* right, the next run succeeds with a manifest that a first run on the
\* corrected checkout gives.
C14_Recovers ==
    \A i \in 1..(Len(results) - 1) :
        ( /\ results[i].outcome = "exit"
          /\ results[i].err \in RecoverableErrors
          /\ ~results[i].disk0.exists
          /\ results[i + 1].checkout =
                [results[i].checkout EXCEPT !.layout = Repaired(@)]
          /\ GoodCheckout(results[i + 1].checkout) )
        => /\ results[i + 1].outcome = "ok"
           /\ IsFreshManifest(results[i + 1].manifest, results[i + 1].checkout)


====
